---- MODULE Spec2Model ----
(***************************************************************************)
(* Model of Arc.ethBalance (src/src/token.ts, class Arc): the registry of  *)
(* observed accounts, the shared newBlockHeaders subscription, the seed    *)
(* reads and the per-block re-reads, and the rxjs subscribers attached to  *)
(* the observables that ethBalance returns (specification Spec); and of    *)
(* the write requests of Proposal and Token that go through                *)
(* Arc.sendTransaction, with their receipt mappers and error handlers      *)
(* (specification OpSpec); and of the state that Proposal.state maps from  *)
(* a query result, with its type and stake thresholds (specification       *)
(* StateSpec); and of one subscription to Token.balanceOf or               *)
(* Token.allowance (specifications TokenSpec and TokenLiveSpec); and of    *)
(* the description handling of Proposal.create (specification CreateSpec). *)
(***************************************************************************)
EXTENDS Integers, Sequences, FiniteSets, TLC

\* ------------------------------------------------------------------ bounds
NumKeys == 2          \* addresses that can be observed
MaxValue == 2         \* balances range over 1..MaxValue
MaxOps == 4           \* calls of ethBalance plus calls of subscribe
MaxEvents == 2        \* notifications of the newBlockHeaders subscription
MaxReads == 3         \* getBalance calls issued

Keys == 1..NumKeys
Values == 1..MaxValue

\* `undefined` for lastBalance, observer and blockHeaderSubscription
Undefined == 0

VARIABLES
    recs,                     \* heap of the record objects ever stored in observedAccounts
    observedAccounts,         \* ids of the records in the registry, in insertion order
    blockHeaderSubscription,  \* id of the feed the field refers to, or Undefined
    liveFeeds,                \* web3 subscriptions created and not unsubscribed
    feedsCreated,             \* number of web3.eth.subscribe calls so far
    handles,                  \* observables returned by ethBalance: the owner of each
    subs,                     \* rxjs subscribers, one per subscribe call; joined is
                              \* the last balance of the record at subscribe time
    reads,                    \* getBalance calls in flight, in the order of issue
    readsIssued,              \* number of getBalance calls so far
    events,                   \* newBlockHeaders notifications so far
    thrown,                   \* the exception raised by the last step, or "none"
    op,                       \* one write request and the Operation it produced
    proposal,                 \* one result of the proposal query and the state mapped from it
    token,                    \* one subscription to Token.balanceOf or Token.allowance
    creation                  \* one call of Proposal.create

vars == <<recs, observedAccounts, blockHeaderSubscription, liveFeeds, feedsCreated,
          handles, subs, reads, readsIssued, events, thrown, op, proposal,
          token, creation>>

\* ------------------------------------------------------------ registry
\* this.observedAccounts[k]: the id of the record stored under key k, or Undefined
Lookup(oa, rs, k) ==
    LET m == {i \in 1..Len(oa) : rs[oa[i]].owner = k}
    IN IF m = {} THEN Undefined ELSE oa[CHOOSE i \in m : TRUE]

\* delete this.observedAccounts[k]
DeleteRec(oa, id) == SelectSeq(oa, LAMBDA x : x # id)

\* the record literal of ethBalance: { subscriptionsCount: 1 }
NewRecord(k) ==
    [owner |-> k, observer |-> Undefined, lastBalance |-> Undefined, subscriptionsCount |-> 1]

\* a record object that neither the registry nor the closure of a re-read in
\* flight refers to is garbage: its fields can no longer be read
Collect(rs, oa, rd) ==
    [i \in 1..Len(rs) |->
        IF (\E j \in 1..Len(oa) : oa[j] = i) \/ (\E j \in 1..Len(rd) : rd[j].rec = i)
        THEN rs[i]
        ELSE [owner |-> rs[i].owner, observer |-> Undefined, lastBalance |-> Undefined,
              subscriptionsCount |-> 0]]

\* ------------------------------------------------------------ rxjs subscriber
\* what a subscriber receives: an error, or a balance; late tells that the
\* balance comes from a re-read issued before another re-read of the same key
\* whose balance this subscriber had already received
ErrItem == [val |-> Undefined, kind |-> "error", late |-> FALSE]
TypeErrItem == [val |-> Undefined, kind |-> "TypeError", late |-> FALSE]
IsValue(item) == item.kind \in {"seed", "tick"}
ValItem(r, v, s) == [val |-> v, kind |-> r.kind, late |-> s \in r.over]

NextAlways(sb, s, item) == [sb EXCEPT ![s].received = Append(@, item)]

\* Subscriber.next: delivered unless the subscriber is stopped
Next_(sb, s, item) ==
    IF sb[s].closed THEN sb
    ELSE [sb EXCEPT ![s].received = Append(@, item)]

\* Subscriber.error, first half: delivered unless stopped, and the subscriber stops
Error_(sb, s, item) ==
    IF sb[s].closed THEN sb
    ELSE [sb EXCEPT ![s].received = Append(@, item), ![s].closed = TRUE]

\* ------------------------------------------------------------ teardown
ShouldDeleteLax(count) == count < 0

\* if (this.observedAccounts[owner].subscriptionsCount <= 0)
ShouldDelete(count) == count <= 0

FieldAfterStopKept(bhs) == bhs

\* this.blockHeaderSubscription = undefined
FieldAfterStop(bhs) == Undefined

\* The function returned by the subscribe function (the unsubscribe logic),
\* applied to a state st = [recs, oa, bhs, live, subs, thrown]
Teardown(st, k) ==
    LET id == Lookup(st.oa, st.recs, k) IN
    IF id = Undefined
    THEN [st EXCEPT !.thrown = "TypeError"]
    ELSE
      LET cnt == st.recs[id].subscriptionsCount - 1
          rs1 == [st.recs EXCEPT ![id].subscriptionsCount = cnt]
          oa1 == IF ShouldDelete(cnt) THEN DeleteRec(st.oa, id) ELSE st.oa
          stop == Len(oa1) = 0 /\ st.bhs # Undefined
      IN [st EXCEPT !.recs = rs1,
                    !.oa = oa1,
                    !.live = IF stop THEN @ \ {st.bhs} ELSE @,
                    !.bhs = IF stop THEN FieldAfterStop(@) ELSE @]

\* subscription.unsubscribe() called on subscriber c from the callback of a
\* listener (c = 0: the callback calls nothing); nothing when c is stopped
Cancel(st, c) ==
    IF c = 0 THEN st
    ELSE IF st.subs[c].closed THEN st
    ELSE Teardown([st EXCEPT !.subs[c].closed = TRUE], st.subs[c].owner)

CurState ==
    [recs |-> recs, oa |-> observedAccounts, bhs |-> blockHeaderSubscription,
     live |-> liveFeeds, subs |-> subs, thrown |-> "none"]

\* ------------------------------------------------------------ inputs
\* Addresses are only compared with each other: the first address ever passed
\* to ethBalance is called 1, the next new one 2, and so on.
NextKey(k) == \A j \in 1..(k - 1) : \E h \in 1..Len(handles) : handles[h] = j

\* Balances are only compared with each other (!==): a balance that differs
\* from all balances in the state is called by the least unused number.
UsedValues ==
    {recs[i].lastBalance : i \in 1..Len(recs)} \cup
    UNION {{subs[s].received[i].val : i \in 1..Len(subs[s].received)} :
           s \in 1..Len(subs)}
NextValue(v) == \A w \in 1..(v - 1) : w \in UsedValues

\* The observables returned for one address are interchangeable (the closure of
\* the subscribe function captures only owner): a subscribe on address k is
\* attributed to the observable of k with the fewest subscribers so far.
NextHandle(h) ==
    \A g \in 1..Len(handles) :
        handles[g] = handles[h] =>
            LET ng == Cardinality({x \in 1..Len(subs) : subs[x].handle = g})
                nh == Cardinality({x \in 1..Len(subs) : subs[x].handle = h})
            IN nh < ng \/ (nh = ng /\ h <= g)

RemoveAt(q, i) == SubSeq(q, 1, i - 1) \o SubSeq(q, i + 1, Len(q))

\* ------------------------------------------------------------ write requests
\* no write request has been made
NoRequest == [pc |-> "none"]

\* no proposal has been queried
NoItem == [pc |-> "none"]

\* no observable of Token.balanceOf or Token.allowance has been created
NoToken == [pc |-> "none"]

\* Proposal.create has not been called
NoCreation == [pc |-> "none"]

\* ------------------------------------------------------------ actions
Init ==
    /\ recs = <<>>
    /\ observedAccounts = <<>>
    /\ blockHeaderSubscription = Undefined
    /\ liveFeeds = {}
    /\ feedsCreated = 0
    /\ handles = <<>>
    /\ subs = <<>>
    /\ reads = <<>>
    /\ readsIssued = 0
    /\ events = 0
    /\ thrown = "none"
    /\ op = NoRequest
    /\ proposal = NoItem
    /\ token = NoToken
    /\ creation = NoCreation

\* Arc.ethBalance(owner): the synchronous part, up to the returned observable
ethBalance(k) ==
    /\ Len(handles) + Len(subs) < MaxOps
    /\ NextKey(k)
    /\ LET id == Lookup(observedAccounts, recs, k) IN
       IF id = Undefined
       THEN /\ recs' = Append(recs, NewRecord(k))
            /\ observedAccounts' = Append(observedAccounts, Len(recs) + 1)
       ELSE /\ recs' = [recs EXCEPT ![id].subscriptionsCount = @ + 1]
            /\ UNCHANGED observedAccounts
    /\ handles' = Append(handles, k)
    /\ thrown' = "none"
    /\ UNCHANGED <<blockHeaderSubscription, liveFeeds, feedsCreated, subs, reads,
                   readsIssued, events>>
    /\ UNCHANGED <<op, proposal, token, creation>>

NeedsFeedAlways(bhs) == TRUE

\* if (!this.blockHeaderSubscription)
NeedsFeed(bhs) == bhs = Undefined

\* the getBalance call of the subscribe function, in flight
SeedRead(k) == [kind |-> "seed", owner |-> k, rec |-> Undefined, over |-> {}]

\* subscribe on the observable of handle h: the subscribe function of Observable.create
Subscribe(h) ==
    /\ Len(handles) + Len(subs) < MaxOps
    /\ NextHandle(h)
    /\ LET k == handles[h]
           id == Lookup(observedAccounts, recs, k)
           s == Len(subs) + 1
           sub == [handle |-> h, owner |-> k, closed |-> FALSE, received |-> <<>>,
                   joined |-> IF id = Undefined THEN Undefined ELSE recs[id].lastBalance]
       IN
       /\ id # Undefined => readsIssued < MaxReads
       /\ IF id = Undefined
          THEN \* this.observedAccounts[owner] is undefined: the subscribe function throws
               \* and rxjs reports the exception to the subscriber
               /\ subs' = Append(subs, [sub EXCEPT !.closed = TRUE,
                                                   !.received = <<TypeErrItem>>])
               /\ thrown' = "TypeError"
               /\ UNCHANGED <<recs, reads, readsIssued, blockHeaderSubscription,
                              liveFeeds, feedsCreated>>
          ELSE /\ subs' = Append(subs, sub)
               /\ recs' = [recs EXCEPT ![id].observer = s]
               /\ reads' = Append(reads, SeedRead(k))
               /\ readsIssued' = readsIssued + 1
               /\ IF NeedsFeed(blockHeaderSubscription)
                  THEN /\ feedsCreated' = feedsCreated + 1
                       /\ blockHeaderSubscription' = feedsCreated + 1
                       /\ liveFeeds' = liveFeeds \cup {feedsCreated + 1}
                  ELSE UNCHANGED <<blockHeaderSubscription, liveFeeds, feedsCreated>>
               /\ thrown' = "none"
    /\ UNCHANGED <<observedAccounts, handles, events>>
    /\ UNCHANGED <<op, proposal, token, creation>>

\* subscription.unsubscribe() by the caller, on a subscriber that is not stopped
\* (on a stopped one rxjs does nothing)
Unsubscribe(s) ==
    /\ s \in 1..Len(subs)
    /\ ~subs[s].closed
    /\ LET st == Teardown(CurState, subs[s].owner) IN
       /\ subs' = [subs EXCEPT ![s].closed = TRUE]
       /\ recs' = Collect(st.recs, st.oa, reads)
       /\ observedAccounts' = st.oa
       /\ blockHeaderSubscription' = st.bhs
       /\ liveFeeds' = st.live
       /\ thrown' = st.thrown
    /\ UNCHANGED <<feedsCreated, handles, reads, readsIssued, events>>
    /\ UNCHANGED <<op, proposal, token, creation>>

\* .then callback of the seed read, token.ts 1235-1239, resolved with balance v
SeedDone(i, v) ==
    /\ i \in 1..Len(reads) /\ reads[i].kind = "seed"
    /\ NextValue(v)
    /\ LET id == Lookup(observedAccounts, recs, reads[i].owner) IN
       IF id = Undefined \/ recs[id].observer = Undefined
       THEN \* accInfo or accInfo.observer is undefined: the callback throws
            /\ thrown' = "TypeError"
            /\ UNCHANGED <<recs, subs>>
       ELSE /\ subs' = Next_(subs, recs[id].observer,
                             ValItem(reads[i], v, recs[id].observer))
            /\ recs' = [recs EXCEPT ![id].lastBalance = v]
            /\ thrown' = "none"
    /\ reads' = RemoveAt(reads, i)
    /\ UNCHANGED <<observedAccounts, blockHeaderSubscription, liveFeeds, feedsCreated,
                   handles, readsIssued, events>>
    /\ UNCHANGED <<op, proposal, token, creation>>

\* if (balance !== accInfo.lastBalance)
Changed(v, last) == v # last

\* the re-reads of the same key issued before re-read i and still in flight learn
\* that subscriber s has received the balance of a newer re-read
Overtake(rd, i, s) ==
    [j \in 1..Len(rd) |->
        IF j < i /\ rd[j].kind = "tick" /\ rd[j].owner = rd[i].owner
        THEN [rd[j] EXCEPT !.over = @ \cup {s}] ELSE rd[j]]

\* .then callback of a re-read, token.ts 1249-1254; accInfo is the record the
\* block-header callback captured when it issued the read
TickReadDone(i, v) ==
    /\ i \in 1..Len(reads) /\ reads[i].kind = "tick"
    /\ NextValue(v)
    /\ LET r == reads[i]
           accInfo == recs[r.rec]
           s == accInfo.observer
       IN
       IF ~Changed(v, accInfo.lastBalance)
       THEN /\ thrown' = "none"
            /\ reads' = RemoveAt(reads, i)
            /\ recs' = Collect(recs, observedAccounts, reads')
            /\ UNCHANGED subs
       ELSE IF s = Undefined
       THEN /\ thrown' = "TypeError"
            /\ reads' = RemoveAt(reads, i)
            /\ recs' = Collect(recs, observedAccounts, reads')
            /\ UNCHANGED subs
       ELSE /\ subs' = Next_(subs, s, ValItem(r, v, s))
            /\ reads' = RemoveAt(IF subs[s].closed THEN reads ELSE Overtake(reads, i, s), i)
            /\ recs' = Collect([recs EXCEPT ![r.rec].lastBalance = v],
                               observedAccounts, reads')
            /\ thrown' = "none"
    /\ UNCHANGED <<observedAccounts, blockHeaderSubscription, liveFeeds, feedsCreated,
                   handles, readsIssued, events>>
    /\ UNCHANGED <<op, proposal, token, creation>>

\* a getBalance promise that rejects: neither .then has a rejection handler
ReadFail(i) ==
    /\ i \in 1..Len(reads)
    /\ reads' = RemoveAt(reads, i)
    /\ recs' = Collect(recs, observedAccounts, reads')
    /\ thrown' = "UnhandledRejection"
    /\ UNCHANGED <<observedAccounts, blockHeaderSubscription, liveFeeds,
                   feedsCreated, handles, subs, readsIssued, events>>
    /\ UNCHANGED <<op, proposal, token, creation>>

\* the reads issued by Object.keys(this.observedAccounts).forEach on a block header
TickReads(oa) ==
    [i \in 1..Len(oa) |->
        [kind |-> "tick", owner |-> recs[oa[i]].owner, rec |-> oa[i], over |-> {}]]

\* newBlockHeaders callback with err unset, token.ts 1243-1257
NewBlockHeader(f) ==
    /\ f \in liveFeeds
    /\ events < MaxEvents
    /\ readsIssued + Len(observedAccounts) <= MaxReads
    /\ events' = events + 1
    /\ reads' = reads \o TickReads(observedAccounts)
    /\ readsIssued' = readsIssued + Len(observedAccounts)
    /\ thrown' = "none"
    /\ UNCHANGED <<recs, observedAccounts, blockHeaderSubscription, liveFeeds,
                   feedsCreated, handles, subs>>
    /\ UNCHANGED <<op, proposal, token, creation>>

\* the forEach of the newBlockHeaders callback with err set, from position i of
\* keys, the snapshot Object.keys took of the registry; the error callback of
\* every listener calls unsubscribe on subscriber c (nothing when c = 0);
\* st = [recs, oa, bhs, live, subs, thrown]
RECURSIVE ErrorLoop(_, _, _, _)
ErrorLoop(st, keys, i, c) ==
    IF i > Len(keys) THEN st
    ELSE IF \A j \in 1..Len(st.oa) : st.oa[j] # keys[i]
    THEN \* this.observedAccounts[addr] is undefined: accInfo.observer throws
         [st EXCEPT !.thrown = "TypeError"]
    ELSE
      LET accInfo == st.recs[keys[i]]
          s == accInfo.observer
      IN
      IF s = Undefined THEN [st EXCEPT !.thrown = "TypeError"]
      ELSE IF st.subs[s].closed THEN ErrorLoop(st, keys, i + 1, c)
      ELSE \* Subscriber.error: stop, call the listener, then unsubscribe (runs
           \* the teardown; an exception of the teardown leaves the forEach)
           LET st1 == Cancel([st EXCEPT !.subs = Error_(st.subs, s, ErrItem)], c)
               st2 == Teardown(st1, accInfo.owner)
           IN IF Lookup(st1.oa, st1.recs, accInfo.owner) = Undefined THEN st2
              ELSE ErrorLoop(st2, keys, i + 1, c)

\* newBlockHeaders callback with err set, token.ts 1243-1257
FeedError(f, c) ==
    /\ f \in liveFeeds
    /\ events < MaxEvents
    /\ c # 0 => ~subs[c].closed
    /\ events' = events + 1
    /\ LET st == ErrorLoop(CurState, observedAccounts, 1, c) IN
       /\ recs' = Collect(st.recs, st.oa, reads)
       /\ observedAccounts' = st.oa
       /\ blockHeaderSubscription' = st.bhs
       /\ liveFeeds' = st.live
       /\ subs' = st.subs
       /\ thrown' = st.thrown
    /\ UNCHANGED <<feedsCreated, handles, reads, readsIssued>>
    /\ UNCHANGED <<op, proposal, token, creation>>

Next ==
    \/ \E k \in Keys : ethBalance(k)
    \/ \E h \in 1..Len(handles) : Subscribe(h)
    \/ \E s \in 1..Len(subs) : Unsubscribe(s)
    \/ \E i \in 1..Len(reads) : \E v \in Values : SeedDone(i, v)
    \/ \E i \in 1..Len(reads) : \E v \in Values : TickReadDone(i, v)
    \/ \E i \in 1..Len(reads) : ReadFail(i)
    \/ \E f \in liveFeeds : NewBlockHeader(f)
    \/ \E f \in liveFeeds : \E c \in 0..Len(subs) : FeedError(f, c)

Spec == Init /\ [][Next]_vars

TypeOK ==
    /\ Len(handles) + Len(subs) <= MaxOps
    /\ events <= MaxEvents
    /\ readsIssued <= MaxReads
    /\ blockHeaderSubscription \in 0..feedsCreated
    /\ \A i \in 1..Len(observedAccounts) : observedAccounts[i] \in 1..Len(recs)

\* ------------------------------------------------------------ errors and reads
MaxAmount == 2        \* token amounts range over 0..MaxAmount

Amounts == 0..MaxAmount

\* utils.NULL_ADDRESS, and any other address
NULL_ADDRESS == "0x0"
SomeAddress == "0xa"

\* the value '2' of the state field that the error handlers compare with
Executed == "2"

\* what votingMachine.methods.proposals(id).call() can return: the zero struct
\* for an id that was never proposed, or a proposal in one of the states
\* '1' (expired in queue), '2' (executed), '3' (queued)
Proposals ==
    {[proposer |-> NULL_ADDRESS, callbacks |-> NULL_ADDRESS, state |-> "0"]} \cup
    {[proposer |-> SomeAddress, callbacks |-> SomeAddress, state |-> st] :
        st \in {"1", Executed, "3"}}

\* the error the transaction fails with: its message contains 'revert' or not
RawErrors == {[msg |-> "revert", raw |-> TRUE], [msg |-> "other", raw |-> TRUE]}

\* the Error values the handlers and mappers construct, by their message
Err(m) == [msg |-> m, raw |-> FALSE]

\* the supplementary reads of the error handlers, in the order of their awaits;
\* failAt names the first one whose promise rejects ("none": all resolve)
ReadNames == {"proposals", "getAccount", "balanceOf", "allowance"}

\* the value of an async function: a promise resolved with v, or rejected
Resolved(v) == [status |-> "resolved", value |-> v]
Rejected(m) == [status |-> "rejected", value |-> Err(m)]

\* error.message.match(/revert/)
MatchRevert(error) == error.msg = "revert"

\* balance.lt(amountBN), allowance.lt(amountBN)
Lt(a, b) == a < b

ReturnWrapped(error) == Err("unknown")

\* return error: "if we have found no known error, we return the original error"
ReturnOriginal(error) == error

\* errorHandler of Proposal.vote, token.ts 924-939
VoteErrorHandler(error, r) ==
    IF MatchRevert(error)
    THEN IF r.failAt = "proposals" THEN Rejected("proposals")
         ELSE IF r.prop.proposer = NULL_ADDRESS THEN Resolved(Err("unknown proposal"))
         ELSE IF r.prop.state = Executed THEN Resolved(Err("already executed"))
         ELSE Resolved(ReturnOriginal(error))
    ELSE Resolved(ReturnOriginal(error))

StakeErrorHandlerBalanceFirst(error, r) ==
    IF MatchRevert(error)
    THEN IF r.failAt \in {"getAccount", "balanceOf"} THEN Rejected(r.failAt)
         ELSE IF Lt(r.balance, r.amount) THEN Resolved(Err("insufficient balance"))
         ELSE IF r.failAt = "proposals" THEN Rejected("proposals")
         ELSE IF r.prop.proposer = NULL_ADDRESS THEN Resolved(Err("unknown proposal"))
         ELSE IF r.failAt = "allowance" THEN Rejected("allowance")
         ELSE IF Lt(r.allowance, r.amount) THEN Resolved(Err("insufficient allowance"))
         ELSE Resolved(ReturnOriginal(error))
    ELSE Resolved(ReturnOriginal(error))

\* errorHandler of Proposal.stake, token.ts 978-1008
StakeErrorHandler(error, r) ==
    IF MatchRevert(error)
    THEN IF r.failAt = "proposals" THEN Rejected("proposals")
         ELSE IF r.prop.proposer = NULL_ADDRESS THEN Resolved(Err("unknown proposal"))
         ELSE IF r.failAt \in {"getAccount", "balanceOf"} THEN Rejected(r.failAt)
         ELSE IF Lt(r.balance, r.amount) THEN Resolved(Err("insufficient balance"))
         ELSE IF r.failAt = "allowance" THEN Rejected("allowance")
         ELSE IF Lt(r.allowance, r.amount) THEN Resolved(Err("insufficient allowance"))
         ELSE Resolved(ReturnOriginal(error))
    ELSE Resolved(ReturnOriginal(error))

\* errorHandler of Proposal.execute, token.ts 1054-1071
ExecuteErrorHandler(error, r) ==
    IF r.failAt = "proposals" THEN Rejected("proposals")
    ELSE IF r.prop.callbacks = NULL_ADDRESS THEN Resolved(Err("does not exist"))
    ELSE IF r.prop.state = Executed THEN Resolved(Err("already executed"))
    ELSE Resolved(ReturnOriginal(error))

\* the default errorHandler of Arc.sendTransaction: (error) => error
DefaultErrorHandler(error, r) == Resolved(error)

\* the errorHandler that the method of request r passes to sendTransaction
ErrorHandler(r) ==
    CASE r.kind = "vote" -> VoteErrorHandler(r.error, r)
      [] r.kind = "stake" -> StakeErrorHandler(r.error, r)
      [] r.kind = "execute" -> ExecuteErrorHandler(r.error, r)
      [] OTHER -> DefaultErrorHandler(r.error, r)

\* ------------------------------------------------------------ receipt mappers
\* the names of the events a receipt can carry
EventNames == {"VoteProposal", "Stake"}

\* a mapper returns a value or throws
Returned(v) == [status |-> "returned", value |-> v]
Threw(m) == [status |-> "threw", value |-> Err(m)]

VoteMapStrict(evs) ==
    IF "VoteProposal" \notin evs THEN Threw("no VoteProposal event") ELSE Returned("Vote")

\* map of Proposal.vote, token.ts 905-923
VoteMap(evs) ==
    IF "VoteProposal" \notin evs THEN Returned("null") ELSE Returned("Vote")

StakeMapLenient(evs) ==
    IF "Stake" \notin evs THEN Returned("null") ELSE Returned("Stake")

\* map of Proposal.stake, token.ts 965-976
StakeMap(evs) ==
    IF "Stake" \notin evs THEN Threw("no Stake event") ELSE Returned("Stake")

\* map of Proposal.execute, token.ts 1046-1053, and mapReceipt of
\* Token.approveForStaking, token.ts 195-202
ReceiptMap(evs) == Returned("receipt")

\* the mapper that the method of request r passes to sendTransaction
MapReceipt(r) ==
    CASE r.kind = "vote" -> VoteMap(r.events)
      [] r.kind = "stake" -> StakeMap(r.events)
      [] OTHER -> ReceiptMap(r.events)

\* ------------------------------------------------------------ the Operation
Kinds == {"vote", "stake", "execute", "approveForStaking"}

\* The write requests: the method called, what the chain holds when the error
\* handler reads it, the error the transaction would fail with and the events
\* of the receipt it would be mined with. Amounts matter to stake only.
Requests ==
    {[kind |-> k, error |-> e, prop |-> pr, failAt |-> fa, events |-> ev,
      amount |-> am, balance |-> b, allowance |-> al,
      pc |-> "idle", emitted |-> <<>>] :
        k \in Kinds, e \in RawErrors, pr \in Proposals,
        fa \in ReadNames \cup {"none"}, ev \in SUBSET EventNames,
        am \in Amounts, b \in Amounts, al \in Amounts}

StreamIdle ==
    /\ recs = <<>>
    /\ observedAccounts = <<>>
    /\ blockHeaderSubscription = Undefined
    /\ liveFeeds = {}
    /\ feedsCreated = 0
    /\ handles = <<>>
    /\ subs = <<>>
    /\ reads = <<>>
    /\ readsIssued = 0
    /\ events = 0
    /\ thrown = "none"

streamVars == <<recs, observedAccounts, blockHeaderSubscription, liveFeeds, feedsCreated,
                handles, subs, reads, readsIssued, events, thrown>>

OpInit ==
    /\ StreamIdle
    /\ proposal = NoItem
    /\ token = NoToken
    /\ creation = NoCreation
    /\ op \in {r \in Requests :
                  r.kind # "stake" => (r.amount = 0 /\ r.balance = 0 /\ r.allowance = 0)}

\* a state of the Operation, as emitted to its subscriber
Snapshot(st, v) == [state |-> st, value |-> v]

\* sendTransaction is called and the Operation is subscribed: Sending is emitted
Submit ==
    /\ op.pc = "idle"
    /\ op' = [op EXCEPT !.pc = "sending",
                        !.emitted = Append(@, Snapshot("Sending", "none"))]
    /\ UNCHANGED <<streamVars, proposal, token, creation>>

\* the endpoint accepts the request: Sent is emitted
Accepted ==
    /\ op.pc = "sending"
    /\ op' = [op EXCEPT !.pc = "sent",
                        !.emitted = Append(@, Snapshot("Sent", "hash"))]
    /\ UNCHANGED <<streamVars, proposal, token, creation>>

\* the endpoint confirms execution with a receipt: Mined with the mapped
\* result, or Failed with the exception of the mapper
Confirmed ==
    /\ op.pc = "sent"
    /\ LET m == MapReceipt(op) IN
       op' = [op EXCEPT !.pc = "done",
                        !.emitted = Append(@,
                            IF m.status = "returned" THEN Snapshot("Mined", m.value)
                            ELSE Snapshot("Failed", m.value))]
    /\ UNCHANGED <<streamVars, proposal, token, creation>>

RawFailureAnytime ==
    /\ op.pc \in {"sending", "sent", "done"}
    /\ op' = [op EXCEPT !.pc = "classifying"]
    /\ UNCHANGED <<streamVars, proposal, token, creation>>

\* the request fails with op.error, before or after it was accepted: the
\* error handler is called
RawFailure ==
    /\ op.pc \in {"sending", "sent"}
    /\ op' = [op EXCEPT !.pc = "classifying"]
    /\ UNCHANGED <<streamVars, proposal, token, creation>>

\* the promise of the error handler settles: Failed with the error it resolved
\* to; when it rejects, the Operation either fails with the rejection or never
\* emits again
Classified ==
    /\ op.pc = "classifying"
    /\ LET h == ErrorHandler(op) IN
       \/ /\ h.status = "resolved"
          /\ op' = [op EXCEPT !.pc = "done",
                              !.emitted = Append(@, Snapshot("Failed", h.value))]
       \/ /\ h.status = "rejected"
          /\ op' = [op EXCEPT !.pc = "done",
                              !.emitted = Append(@, Snapshot("Failed", h.value))]
       \/ /\ h.status = "rejected"
          /\ op' = [op EXCEPT !.pc = "hung"]
    /\ UNCHANGED <<streamVars, proposal, token, creation>>

OpNext ==
    \/ Submit
    \/ Accepted
    \/ Confirmed
    \/ RawFailure
    \/ Classified

OpSpec == OpInit /\ [][OpNext]_vars

OpTypeOK ==
    /\ op.pc \in {"idle", "sending", "sent", "classifying", "done", "hung"}
    /\ Len(op.emitted) <= 3

\* ------------------------------------------------------------ Proposal.state
\* PRECISION is Math.pow(2, 40) in the program. The model gives the fixed-point
\* threshold FracBits fraction bits: for a threshold that is a multiple of
\* 2^-FracBits the factor 2^(40 - FracBits) is common to threshold * PRECISION
\* and to PRECISION and cancels in both quotients.
FracBits == 3
MaxStake == 3         \* stakes range over 0..MaxStake and the stakes of the examples

PRECISION == 2 ^ FracBits

\* the fraction bits of the fixed-point numbers that realMathToNumber decodes
REAL_FBITS == FracBits

\* item.stakesFor, item.stakesAgainst
Stakes == (0..MaxStake) \cup {100, 150, 300}

\* item.gpQueue.threshold: fixed-point numbers from 0 to 2
Thresholds == 0..(2 * PRECISION)

\* the names of IProposalStage, token.ts 248-255
Stages == {"ExpiredInQueue", "Executed", "Queued", "PreBoosted", "Boosted",
           "QuietEndingPeriod"}

\* utils.realMathToNumber: the number t / 2^REAL_FBITS, kept as a fraction
realMathToNumber(t) == [num |-> t, den |-> 2 ^ REAL_FBITS]

\* new BN(x * PRECISION) for a number x
TimesPrecision(x, precision) == (x.num * precision) \div x.den

\* BN.div: the quotient rounded towards zero; bn.js asserts a divisor that is
\* not zero
DivOk(b) == b # 0
Div(a, b) == a \div b

SubClamped(a, b) == IF a < b THEN 0 ELSE a - b

\* BN.sub
Sub(a, b) == a - b

UpstakeDivFirst(threshold, stakesFor, stakesAgainst) ==
    Sub(TimesPrecision(threshold, PRECISION) * Div(stakesAgainst, PRECISION), stakesFor)

\* new BN(threshold * PRECISION).mul(stakesAgainst).div(new BN(PRECISION))
\*     .sub(stakesFor), token.ts 771-774
Upstake(threshold, stakesFor, stakesAgainst) ==
    Sub(Div(TimesPrecision(threshold, PRECISION) * stakesAgainst, PRECISION), stakesFor)

DownStakeOtherPrecision(threshold, stakesFor, stakesAgainst) ==
    Sub(Div(stakesFor * (2 * PRECISION), TimesPrecision(threshold, PRECISION)),
        stakesAgainst)

\* stakesFor.mul(new BN(PRECISION)).div(new BN(threshold * PRECISION))
\*     .sub(stakesAgainst), token.ts 781-783
DownStake(threshold, stakesFor, stakesAgainst) ==
    Sub(Div(stakesFor * PRECISION, TimesPrecision(threshold, PRECISION)), stakesAgainst)

IsStageAlways(stage, name) == TRUE

\* stage === IProposalStage.Queued, stage === IProposalStage.PreBoosted
IsStage(stage, name) == stage = name

\* a value that may be null: Null, or Some(x) for the value x
Null == <<>>
Some(x) == <<x>>
Truthy(x) == x # Null

\* addresses as the subgraph reports them, in either case
Addresses == {"0xa", "0xA", "0xb"}

\* String.prototype.toLowerCase
ToLowerCase(a) == IF a = "0xA" THEN "0xa" ELSE a

\* item.dao.schemes.map((s) => s.address.toLowerCase()).includes(a), token.ts 731-732
Includes(schemes, a) == \E i \in 1..Len(schemes) : ToLowerCase(schemes[i]) = a

SchemeRegistrarTypeRemoveFirst(item) ==
    LET sr == item.schemeRegistrar[1] IN
    IF Truthy(sr.schemeToRemove) THEN Returned("SchemeRegistrarRemove")
    ELSE IF Truthy(sr.schemeToRegister)
    THEN IF Includes(item.daoSchemes, ToLowerCase(sr.schemeToRegister[1]))
         THEN Returned("SchemeRegistrarEdit")
         ELSE Returned("SchemeRegistrarAdd")
    ELSE Threw("Unknown proposal type: schemeRegistrar without a scheme to register or to remove")

\* the branch of itemMap for item.schemeRegistrar, token.ts 728-741
SchemeRegistrarType(item) ==
    LET sr == item.schemeRegistrar[1] IN
    IF Truthy(sr.schemeToRegister)
    THEN IF Includes(item.daoSchemes, ToLowerCase(sr.schemeToRegister[1]))
         THEN Returned("SchemeRegistrarEdit")
         ELSE Returned("SchemeRegistrarAdd")
    ELSE IF Truthy(sr.schemeToRemove) THEN Returned("SchemeRegistrarRemove")
    ELSE Threw("Unknown proposal type: schemeRegistrar without a scheme to register or to remove")

\* the type that itemMap derives from the sub-records of the item, or the
\* error it throws, token.ts 704-755
ProposalType(item) ==
    IF Truthy(item.contributionReward) THEN Returned("ContributionReward")
    ELSE IF Truthy(item.genericScheme) THEN Returned("GenericScheme")
    ELSE IF Truthy(item.schemeRegistrar) THEN SchemeRegistrarType(item)
    ELSE Threw("Unknown proposal type")

\* the query found no proposal
NullItem == [null |-> TRUE]

\* itemMap of Proposal.state, token.ts 698-784: null for no item, else the
\* type and the two stake thresholds of the state, or the exception of the
\* type derivation or of BN.div
itemMap(item) ==
    IF item = NullItem THEN [status |-> "null"]
    ELSE
    LET type == ProposalType(item)
        threshold == realMathToNumber(item.threshold)
        queued == IsStage(item.stage, "Queued")
        preBoosted == IsStage(item.stage, "PreBoosted")
    IN
    IF type.status = "threw" THEN [status |-> "threw", error |-> type.value]
    ELSE IF preBoosted /\ ~DivOk(TimesPrecision(threshold, PRECISION))
    THEN [status |-> "threw", error |-> Err("Assertion failed")]
    ELSE [status |-> "returned",
          type |-> type.value,
          stage |-> item.stage,
          upstakeNeededToPreBoost |->
              IF queued THEN Upstake(threshold, item.stakesFor, item.stakesAgainst)
              ELSE 0,
          downStakeNeededToQueue |->
              IF preBoosted THEN DownStake(threshold, item.stakesFor, item.stakesAgainst)
              ELSE 0]

\* item.schemeRegistrar: null, or its two scheme fields
SchemeRegistrars ==
    {Null} \cup
    {Some([schemeToRegister |-> rg, schemeToRemove |-> rm]) :
        rg \in {Null, Some("0xa"), Some("0xA"), Some("0xb")},
        rm \in {Null, Some("0xb")}}

\* item.dao.schemes, by address
DaoSchemes == {<<>>, <<"0xA">>, <<"0xb", "0xa">>}

\* the results of the proposal query with every stage, threshold and stake,
\* for a contribution reward proposal
ThresholdItems ==
    {[stage |-> sg, threshold |-> th, stakesFor |-> sf, stakesAgainst |-> sa,
      contributionReward |-> Some("reward"), genericScheme |-> Null,
      schemeRegistrar |-> Null, daoSchemes |-> <<>>] :
        sg \in Stages, th \in Thresholds, sf \in Stakes, sa \in Stakes}

\* the results of the proposal query with every combination of sub-records,
\* for queued and pre-boosted proposals
TypeItems ==
    {[stage |-> sg, threshold |-> PRECISION, stakesFor |-> sf, stakesAgainst |-> 1,
      contributionReward |-> cr, genericScheme |-> gs,
      schemeRegistrar |-> sr, daoSchemes |-> ds] :
        sg \in {"Queued", "PreBoosted"}, sf \in 0..MaxStake,
        cr \in {Null, Some("reward")}, gs \in {Null, Some("call")},
        sr \in SchemeRegistrars, ds \in DaoSchemes}

\* the results of the proposal query
Items == ThresholdItems \cup TypeItems \cup {NullItem}

StateInit ==
    /\ StreamIdle
    /\ op = NoRequest
    /\ token = NoToken
    /\ creation = NoCreation
    /\ proposal \in {[pc |-> "queried", item |-> it] : it \in Items}

\* the observable of Proposal.state maps the query result
MapItem ==
    /\ proposal.pc = "queried"
    /\ proposal' = [pc |-> "mapped", item |-> proposal.item,
                    state |-> itemMap(proposal.item)]
    /\ UNCHANGED <<streamVars, op, token, creation>>

StateNext == MapItem

StateSpec == StateInit /\ [][StateNext]_vars

StateTypeOK == proposal.pc \in {"queried", "mapped"}

\* ------------------------------------------------------------ Token.balanceOf, Token.allowance
\* One subscription to the observable of Token.balanceOf(owner) or of
\* Token.allowance(owner, spender), token.ts 112-165, and the amount on the
\* chain that it watches.

MaxTransfers == 2     \* changes of the watched amount on the chain

\* the amounts the contract can report
TokenAmounts == 0..(MaxTransfers + 1)

\* contract.methods.balanceOf(owner).call() resolved with null
NullAmount == -1

\* the subscribe function passed to Observable.create is async: it returns a
\* promise, and rxjs registers as teardown only a function or an object with
\* an unsubscribe method, so the returned closure is never called
TeardownRegistered == FALSE

\* observer.next(new BN(v)) on the rxjs subscriber: nothing once it is stopped
TokenEmit(tok, v) ==
    IF tok.observer = "open" THEN [tok EXCEPT !.received = Append(@, v)] ELSE tok

\* observer.error(e) on the rxjs subscriber: delivers and stops it
TokenFail(tok) ==
    IF tok.observer = "open"
    THEN [tok EXCEPT !.received = Append(@, NullAmount), !.observer = "closed"]
    ELSE tok

\* the event subscription that the read callback creates, token.ts 120-126:
\* contract.events.Transfer({ filter: { _to: owner }}) for balanceOf,
\* contract.events.Approval({ filter: { _owner: owner }}) for allowance
CreateEventSubscription(tok) == [tok EXCEPT !.subscription = "active"]

\* the closure returned to rxjs, token.ts 131-133
TokenTeardown(tok) ==
    IF TeardownRegistered /\ tok.subscription = "active"
    THEN [tok EXCEPT !.subscription = "stopped"]
    ELSE tok

\* the observable has been created and nobody has subscribed
TokenInit ==
    /\ StreamIdle
    /\ op = NoRequest
    /\ proposal = NoItem
    /\ creation = NoCreation
    /\ token \in {[pc |-> "created", kind |-> k, amount |-> a, observer |-> "none",
                   received |-> <<>>, initial |-> "none", subscription |-> "none",
                   pending |-> 0, reads |-> 0, transfers |-> 0, lost |-> FALSE] :
                      k \in {"balanceOf", "allowance"}, a \in 0..1}

\* observable.subscribe(): the subscribe function issues the initial read,
\* token.ts 113-116
TokenSubscribe ==
    /\ token.pc = "created"
    /\ token' = [token EXCEPT !.pc = "subscribed", !.observer = "open",
                              !.initial = "pending"]
    /\ UNCHANGED <<streamVars, op, proposal, creation>>

\* .then callback of the initial read, token.ts 117-127, resolved with v: the
\* amount on the chain, or null
InitialRead(v) ==
    /\ token.pc = "subscribed"
    /\ token.initial = "pending"
    /\ v \in {token.amount, NullAmount}
    /\ LET t1 == [token EXCEPT !.initial = "done"]
           t2 == IF v = NullAmount THEN TokenFail(t1) ELSE t1
           t3 == TokenEmit(t2, IF v = NullAmount THEN 0 ELSE v)
       IN token' = CreateEventSubscription(t3)
    /\ UNCHANGED <<streamVars, op, proposal, creation>>

\* .catch callback of the initial read, token.ts 129
InitialReadFail ==
    /\ token.pc = "subscribed"
    /\ token.initial = "pending"
    /\ token' = TokenFail([token EXCEPT !.initial = "failed"])
    /\ UNCHANGED <<streamVars, op, proposal, creation>>

\* the chain raises the watched amount: a transfer to owner (event Transfer
\* with _to = owner), an approve by owner (event Approval with _owner = owner);
\* a live event subscription is notified
Credit ==
    /\ token.pc # "none"
    /\ token.transfers < MaxTransfers
    /\ token' = [token EXCEPT !.amount = @ + 1, !.transfers = @ + 1,
                              !.pending = IF token.subscription = "active"
                                          THEN @ + 1 ELSE @]
    /\ UNCHANGED <<streamVars, op, proposal, creation>>

\* the chain lowers the watched amount: a transfer from owner (event Transfer
\* with _from = owner, which the filter _to = owner does not match), a
\* transferFrom by the spender (an Approval event or none, as the token
\* contract chooses)
Debit(notified) ==
    /\ token.pc # "none"
    /\ token.transfers < MaxTransfers
    /\ token.amount > 0
    /\ notified => token.kind = "allowance"
    /\ token' = [token EXCEPT !.amount = @ - 1, !.transfers = @ + 1,
                              !.pending = IF notified /\ token.subscription = "active"
                                          THEN @ + 1 ELSE @]
    /\ UNCHANGED <<streamVars, op, proposal, creation>>

\* .on('data') callback of the event subscription, token.ts 121-126: issues a
\* re-read
EventData ==
    /\ token.pc = "subscribed"
    /\ token.subscription = "active"
    /\ token.pending > 0
    /\ token' = [token EXCEPT !.pending = @ - 1, !.reads = @ + 1]
    /\ UNCHANGED <<streamVars, op, proposal, creation>>

\* .then callback of a re-read, token.ts 123-125, resolved with the amount on
\* the chain
ReRead ==
    /\ token.pc = "subscribed"
    /\ token.reads > 0
    /\ token' = TokenEmit([token EXCEPT !.reads = @ - 1], token.amount)
    /\ UNCHANGED <<streamVars, op, proposal, creation>>

\* a re-read is rejected: the promise has no rejection handler
ReReadFail ==
    /\ token.pc = "subscribed"
    /\ token.reads > 0
    /\ token' = [token EXCEPT !.reads = @ - 1, !.lost = TRUE]
    /\ UNCHANGED <<streamVars, op, proposal, creation>>

\* subscription.unsubscribe() by the subscriber
TokenUnsubscribe ==
    /\ token.pc = "subscribed"
    /\ token.observer = "open"
    /\ token' = TokenTeardown([token EXCEPT !.observer = "closed"])
    /\ UNCHANGED <<streamVars, op, proposal, creation>>

TokenNext ==
    \/ TokenSubscribe
    \/ \E v \in TokenAmounts \cup {NullAmount} : InitialRead(v)
    \/ InitialReadFail
    \/ Credit
    \/ \E notified \in BOOLEAN : Debit(notified)
    \/ EventData
    \/ ReRead
    \/ ReReadFail
    \/ TokenUnsubscribe

TokenSpec == TokenInit /\ [][TokenNext]_vars

\* the promises of the reads settle and the events of the contract are
\* delivered
TokenLiveSpec ==
    /\ TokenInit /\ [][TokenNext]_vars
    /\ WF_vars(\E v \in TokenAmounts \cup {NullAmount} : InitialRead(v))
    /\ WF_vars(EventData)
    /\ WF_vars(ReRead)

TokenTypeOK ==
    /\ token.pc \in {"created", "subscribed"}
    /\ token.amount \in TokenAmounts
    /\ token.observer \in {"none", "open", "closed"}
    /\ token.subscription \in {"none", "active", "stopped"}

\* ------------------------------------------------------------ Proposal.create
\* One call of Proposal.create(options, context), token.ts 354-505: the
\* checks of the options, and createTransaction with saveIPFSData, which the
\* Operation runs to obtain the transaction to send.

\* IProposalType, and a value that is none of its members
ProposalTypes == {"ContributionReward", "GenericScheme", "SchemeRegistrarAdd",
                  "SchemeRegistrarEdit", "SchemeRegistrarRemove"}
UnknownType == "Unknown"

\* the options of the call: title, url, description and descriptionHash are
\* null or set; required tells whether the arguments that the type requires
\* (callData and value; scheme, parametersHash and permissions; scheme) are
\* all given
CreateOptions ==
    {[dao |-> d, type |-> ty, title |-> ti, url |-> u, description |-> de,
      descriptionHash |-> h, required |-> rq] :
        d \in {Null, Some("0xd")}, ty \in ProposalTypes \cup {UnknownType},
        ti \in {Null, Some("title")}, u \in {Null, Some("url")},
        de \in {Null, Some("text")}, h \in {Null, Some("QmCaller")},
        rq \in BOOLEAN}

\* let ipfsDataToSave: object = {}, token.ts 362
EmptyObject == [title |-> Null, url |-> Null, description |-> Null, empty |-> TRUE]

\* ipfsDataToSave !== {}: the comparison of an object with a new object
\* literal, token.ts 379
DiffersFromNewObject(data) == TRUE

\* ipfsResponse[0].path: the content hash of the data added to IPFS
PathOf(data) == IF data = EmptyObject THEN "QmEmptyObject" ELSE "QmData"

\* the checks of the options that Proposal.create makes before it returns the
\* Operation, token.ts 358-360 and 396-494: the error thrown, or Null
CreateChecks(o) ==
    IF ~Truthy(o.dao)
    THEN Some(Err("options must include an address for dao"))
    ELSE IF o.type = UnknownType THEN Some(Err("Unknown proposal type"))
    ELSE IF o.type # "ContributionReward" /\ ~o.required
    THEN Some(Err("Missing argument"))
    ELSE Null

\* options.descriptionHash || '' of proposeContributionReward, token.ts 408;
\* the other types pass options.descriptionHash itself
TransactionHash(type, h) ==
    IF type = "ContributionReward" /\ ~Truthy(h) THEN Some("") ELSE h

\* Proposal.create has been called
CreateInit ==
    /\ StreamIdle
    /\ op = NoRequest
    /\ proposal = NoItem
    /\ token = NoToken
    /\ creation \in {[pc |-> "called", options |-> o, ipfsProvider |-> ip,
                      descriptionHash |-> o.descriptionHash,
                      ipfsDataToSave |-> EmptyObject, saved |-> <<>>,
                      pinned |-> <<>>, path |-> Null, tx |-> Null, error |-> Null] :
                         o \in CreateOptions, ip \in BOOLEAN}

\* the synchronous part of Proposal.create: throws, or returns the Operation
\* of context.sendTransaction(createTransaction, map), token.ts 505
Create ==
    /\ creation.pc = "called"
    /\ LET e == CreateChecks(creation.options) IN
       creation' = IF e # Null
                   THEN [creation EXCEPT !.pc = "threw", !.error = e]
                   ELSE [creation EXCEPT !.pc = "sent"]
    /\ UNCHANGED <<streamVars, op, proposal, token>>

\* a rejection of createTransaction: the Operation fails
CreateRejected(c, m) == [c EXCEPT !.pc = "failed", !.error = Some(Err(m))]

\* createTransaction up to the first await of saveIPFSData, token.ts 364-383
saveIPFSData ==
    /\ creation.pc = "sent"
    /\ LET o == creation.options
           described == Truthy(o.title) \/ Truthy(o.url) \/ Truthy(o.description)
           data == IF described
                   THEN [title |-> o.title, url |-> o.url,
                         description |-> o.description, empty |-> FALSE]
                   ELSE creation.ipfsDataToSave
           c1 == [creation EXCEPT !.ipfsDataToSave = data]
       IN creation' =
            IF described /\ ~creation.ipfsProvider
            THEN CreateRejected(creation, "No ipfsProvider set on Arc instance")
            ELSE IF described /\ Truthy(o.descriptionHash)
            THEN CreateRejected(c1, "takes a descriptionHash, or values for title, url and description; not both")
            ELSE IF ~DiffersFromNewObject(data)
            THEN [c1 EXCEPT !.pc = "built", !.descriptionHash = Null,
                            !.tx = Some(TransactionHash(o.type, Null))]
            ELSE IF ~creation.ipfsProvider
            THEN CreateRejected(c1, "TypeError")
            ELSE [c1 EXCEPT !.pc = "adding"]
    /\ UNCHANGED <<streamVars, op, proposal, token>>

\* context.ipfs.add settles, token.ts 383-384
IpfsAdd(ok) ==
    /\ creation.pc = "adding"
    /\ creation' =
         IF ok
         THEN [creation EXCEPT !.pc = "pinning",
                               !.saved = Append(@, creation.ipfsDataToSave),
                               !.path = Some(PathOf(creation.ipfsDataToSave))]
         ELSE CreateRejected(creation, "ipfs.add failed")
    /\ UNCHANGED <<streamVars, op, proposal, token>>

\* context.ipfs.pin.add settles, token.ts 386; saveIPFSData returns the path,
\* createTransaction assigns it to options.descriptionHash and builds the
\* transaction, token.ts 405-421
IpfsPin(ok) ==
    /\ creation.pc = "pinning"
    /\ creation' =
         IF ok
         THEN [creation EXCEPT !.pc = "built",
                               !.pinned = Append(@, creation.path[1]),
                               !.descriptionHash = creation.path,
                               !.tx = Some(TransactionHash(creation.options.type,
                                                           creation.path))]
         ELSE CreateRejected(creation, "ipfs.pin.add failed")
    /\ UNCHANGED <<streamVars, op, proposal, token>>

CreateNext ==
    \/ Create
    \/ saveIPFSData
    \/ \E ok \in BOOLEAN : IpfsAdd(ok)
    \/ \E ok \in BOOLEAN : IpfsPin(ok)

CreateSpec == CreateInit /\ [][CreateNext]_vars

CreateTypeOK ==
    creation.pc \in {"called", "threw", "sent", "adding", "pinning", "built", "failed"}

\* ------------------------------------------------------------ vocabulary of the claims
Subscribers == 1..Len(subs)
Active(s) == ~subs[s].closed
SubsOfHandle(h) == {s \in Subscribers : subs[s].handle = h}
HandlesOf(k) == {h \in 1..Len(handles) : handles[h] = k}

\* every observable that ethBalance returned has been subscribed exactly once
EachSubscribedOnce == \A h \in 1..Len(handles) : Cardinality(SubsOfHandle(h)) = 1

\* no observable that ethBalance returned has been subscribed more than once
NoneSubscribedTwice == \A h \in 1..Len(handles) : Cardinality(SubsOfHandle(h)) <= 1

\* the step delivers one more item to subscriber s, and it is balance v
\* (resp. the feed error)
ReceivesValue(s, v) ==
    /\ Len(subs'[s].received) = Len(subs[s].received) + 1
    /\ subs'[s].received[Len(subs'[s].received)].val = v
ReceivesError(s) == subs'[s].received = Append(subs[s].received, ErrItem)

\* the step takes read i, and no other, out of the reads in flight
InFlight(rd) == [j \in 1..Len(rd) |-> <<rd[j].kind, rd[j].owner, rd[j].rec>>]
Completes(i) == InFlight(reads') = RemoveAt(InFlight(reads), i)

\* the most recent subscriber of its key
Latest(s) == \A t \in Subscribers : subs[t].owner = subs[s].owner => t <= s

\* some subscriber has received a feed error
FeedFailed ==
    \E t \in Subscribers :
        \E i \in 1..Len(subs[t].received) : subs[t].received[i] = ErrItem

\* the step is the completion of a re-read for the record currently registered
\* under key k, with a balance that differs from the record's last balance
ChangedReRead(k) ==
    LET id == Lookup(observedAccounts, recs, k) IN
    /\ id # Undefined
    /\ \E i \in 1..Len(reads) : reads[i].kind = "tick" /\ reads[i].rec = id
                                /\ Completes(i)
    /\ recs'[id].lastBalance # recs[id].lastBalance

\* the step is a feed error that reaches at least one subscriber
FeedErrorDelivered == \E s \in Subscribers : Active(s) /\ ReceivesError(s)

\* ------------------------------------------------------------ C1
\* C1: at most one newBlockHeaders subscription is live, it is the one that
\* blockHeaderSubscription refers to, and while every subscriber created so far
\* is still subscribed (N concurrent observers, of one key or several) exactly
\* one feed has been created.
SingleUpstream ==
    /\ Cardinality(liveFeeds) <= 1
    /\ liveFeeds = IF blockHeaderSubscription = Undefined THEN {}
                   ELSE {blockHeaderSubscription}
    /\ (Subscribers # {} /\ \A s \in Subscribers : Active(s)) => feedsCreated = 1

\* two observers of the same key are subscribed at once
SingleUpstreamWitness ==
    /\ \E s, t \in Subscribers : s # t /\ subs[s].owner = subs[t].owner
                                 /\ Active(s) /\ Active(t)
    /\ \A s \in Subscribers : Active(s)
    /\ Cardinality(liveFeeds) = 1

\* ------------------------------------------------------------ C2
\* every observable ethBalance(k) returned was subscribed exactly once and
\* every one of these subscriptions has ended: unsubscribed by its caller, or
\* stopped by an error (unsubscribing it afterwards does nothing)
AllCancelled(k) ==
    /\ HandlesOf(k) # {}
    /\ \A h \in HandlesOf(k) :
          /\ Cardinality(SubsOfHandle(h)) = 1
          /\ \A s \in SubsOfHandle(h) : ~Active(s)

\* C2: after N calls ethBalance(k), each subscribed once, and the N unsubscribes,
\* observedAccounts has no record for k; and when the registry is then empty
\* the block-header subscription is unsubscribed and the field cleared.
RefCountTeardown ==
    \A k \in Keys :
        AllCancelled(k) =>
            /\ Lookup(observedAccounts, recs, k) = Undefined
            /\ Len(observedAccounts) = 0 =>
                  blockHeaderSubscription = Undefined /\ liveFeeds = {}

\* two observers of one key, both unsubscribed, after a feed had been started
RefCountTeardownWitness ==
    \E k \in Keys :
        /\ AllCancelled(k)
        /\ Cardinality(HandlesOf(k)) = 2
        /\ feedsCreated = 1
        /\ Len(observedAccounts) = 0

\* ------------------------------------------------------------ C3
\* C3: when the re-read of key k returns a balance different from the last
\* balance of k's record, every subscriber of k that is still subscribed
\* receives the new balance (each observable being subscribed exactly once).
FanOut ==
    [][\A k \in Keys :
          (EachSubscribedOnce /\ ChangedReRead(k)) =>
              \A s \in Subscribers :
                  (subs[s].owner = k /\ Active(s)) =>
                      ReceivesValue(s, recs'[Lookup(observedAccounts, recs, k)].lastBalance)]_vars

\* ------------------------------------------------------------ C4
\* C4: no subscriber receives the same balance twice in a row, whatever the
\* order in which the seed read and the re-reads complete (each observable
\* being subscribed exactly once).
DedupOnChange ==
    EachSubscribedOnce =>
    \A s \in Subscribers :
        \A i \in 1..(Len(subs[s].received) - 1) :
            (IsValue(subs[s].received[i]) /\ IsValue(subs[s].received[i + 1]))
                => subs[s].received[i].val # subs[s].received[i + 1].val

\* ------------------------------------------------------------ C5
\* C5: the balances of re-reads reach a subscriber in the order in which the
\* re-reads were issued: no subscriber receives the balance of a re-read after
\* it has received the balance of a re-read of the same key issued later.
PerKeyOrdering ==
    \A s \in Subscribers :
        \A i \in 1..Len(subs[s].received) : ~subs[s].received[i].late

\* ------------------------------------------------------------ C6
\* C6: when every observable is subscribed once, a subscriber that subscribed
\* while the record of its key held a last balance v has received v, as the
\* first thing it receives, before the next notification of the feed is
\* processed.
LateSubscriberReplay ==
    [][(EachSubscribedOnce /\ events' = events + 1) =>
          \A s \in Subscribers :
              (Active(s) /\ subs[s].joined # Undefined) =>
                  /\ Len(subs[s].received) >= 1
                  /\ subs[s].received[1].val = subs[s].joined]_vars

\* ------------------------------------------------------------ C7
\* C7: an unsubscribe leaves the records of all other active subscribers in the
\* registry, and after an unsubscribe every subscriber that is still subscribed
\* keeps receiving each changed balance of its key (each observable being
\* subscribed exactly once).
CancelIsolation ==
    [][/\ \A s \in Subscribers :
            (EachSubscribedOnce /\ Active(s) /\ ~Active(s)' /\ Len(subs'[s].received) = Len(subs[s].received)) =>
                \A t \in Subscribers \ {s} :
                    Active(t) =>
                        /\ Lookup(observedAccounts', recs', subs[t].owner) # Undefined
                        /\ Active(t)'
       /\ (EachSubscribedOnce /\ \E s \in Subscribers : ~Active(s)) =>
            \A k \in Keys :
                ChangedReRead(k) =>
                    \A t \in Subscribers :
                        (subs[t].owner = k /\ Active(t)) =>
                            ReceivesValue(t, recs'[Lookup(observedAccounts, recs, k)].lastBalance)]_vars

\* ------------------------------------------------------------ C8
\* C8: when no read is in flight, the block-header subscription exists exactly
\* when observedAccounts is not empty.
FeedLifecycle ==
    Len(reads) = 0 => (blockHeaderSubscription # Undefined <=> Len(observedAccounts) > 0)

\* ------------------------------------------------------------ C9
\* C9: a feed error is delivered to every subscriber that is subscribed to any
\* key of the registry (each observable being subscribed exactly once).
FeedFailureBroadcast ==
    [][(EachSubscribedOnce /\ FeedErrorDelivered) =>
          \A s \in Subscribers :
              (Active(s) /\ Lookup(observedAccounts, recs, subs[s].owner) # Undefined)
                  => ReceivesError(s)]_vars

\* ------------------------------------------------------------ C10
\* C10: once a feed error has been processed the block-header subscription is
\* unsubscribed and blockHeaderSubscription is undefined (each observable being
\* subscribed exactly once).
FeedFailureTeardown ==
    [][(EachSubscribedOnce /\ FeedErrorDelivered) =>
          (blockHeaderSubscription' = Undefined /\ liveFeeds' = {})]_vars

\* ------------------------------------------------------------ C11
\* the step resolves a seed read of key k
SeedResolves(k) ==
    /\ \E i \in 1..Len(reads) : reads[i].kind = "seed" /\ reads[i].owner = k
                                /\ Completes(i)
    /\ thrown' # "UnhandledRejection"

\* the step is a subscribe that creates subscriber s without throwing
Subscribes(s) == Len(subs) = s - 1 /\ Len(subs') = s /\ ~subs'[s].closed

StaleReRead(i) ==
    /\ reads[i].kind = "tick"
    /\ \A j \in 1..Len(observedAccounts) : observedAccounts[j] # reads[i].rec

CancelledByListener(c) ==
    /\ Active(c) /\ ~Active(c)'
    /\ subs'[c].received = subs[c].received

\* C13: when the error callback of a listener cancels a subscription while the
\* block-header callback iterates over the keys, the callback raises nothing
\* (each observable being subscribed exactly once).
TickIterationSafety ==
    [][(EachSubscribedOnce /\ FeedErrorDelivered
           /\ \E c \in Subscribers : CancelledByListener(c)) =>
          thrown' = "none"]_vars

\* ------------------------------------------------------------ C14
\* the step is the rejection of read i
Rejects(i) == Completes(i) /\ thrown' = "UnhandledRejection"

\* the step delivers an error to subscriber s
ReceivesFailure(s) ==
    /\ Len(subs'[s].received) = Len(subs[s].received) + 1
    /\ ~IsValue(subs'[s].received[Len(subs'[s].received)])

\* C14: when the re-read of key k is rejected, every subscriber of k that is
\* still subscribed receives an error and no subscriber of another key receives
\* anything (each observable being subscribed exactly once).
PerKeyReadFailure ==
    [][\A i \in 1..Len(reads) :
          (EachSubscribedOnce /\ reads[i].kind = "tick" /\ Rejects(i)) =>
              \A s \in Subscribers :
                  IF subs[s].owner = reads[i].owner
                  THEN Active(s) => ReceivesFailure(s)
                  ELSE subs'[s] = subs[s]]_vars

\* ------------------------------------------------------------ C15
\* C15: when a seed read of key k is rejected while a subscriber of k is
\* subscribed, some subscriber of k receives an error (each observable being
\* subscribed exactly once).
NoSwallowedReadError ==
    [][\A i \in 1..Len(reads) :
          (EachSubscribedOnce /\ reads[i].kind = "seed" /\ Rejects(i)
              /\ \E s \in Subscribers : subs[s].owner = reads[i].owner /\ Active(s)) =>
                \E s \in Subscribers :
                    subs[s].owner = reads[i].owner /\ ReceivesFailure(s)]_vars

\* ------------------------------------------------------------ vocabulary of C16-C20
IsPrefix(a, b) == Len(a) <= Len(b) /\ SubSeq(b, 1, Len(a)) = a
StateNames(e) == [i \in 1..Len(e) |-> e[i].state]
LastEmitted == op.emitted[Len(op.emitted)]

\* the step is the one in which the error handler of the request settles
Classifies == op.pc = "classifying" /\ op'.pc # "classifying"

\* the step ends the Operation in Failed with error e
FailsWith(e) == op'.emitted = Append(op.emitted, Snapshot("Failed", e))

\* the classes of error of the error handlers
NotFound == {Err("unknown proposal"), Err("does not exist")}
AlreadyFinalized == Err("already executed")
InsufficientBalance == Err("insufficient balance")
InsufficientAllowance == Err("insufficient allowance")

\* the supplementary reads that the error handler of a method issues at most
ReadsOf(k) ==
    CASE k \in {"vote", "execute"} -> {"proposals"}
      [] k = "stake" -> ReadNames
      [] OTHER -> {}

\* none of the reads that the error handler of the request can issue rejects
ReadsSucceed == op.failAt \notin ReadsOf(op.kind)

\* ------------------------------------------------------------ C16
\* C16: the states an Operation has emitted are a prefix of Sending, Sent, Mined
\* or of Sending, Sent, Failed or of Sending, Failed.
OperationMonotonic ==
    \E t \in {<<"Sending", "Sent", "Mined">>, <<"Sending", "Sent", "Failed">>,
              <<"Sending", "Failed">>} :
        IsPrefix(StateNames(op.emitted), t)

\* an Operation that was sent and then failed
OperationMonotonicWitness ==
    /\ op.pc = "done"
    /\ StateNames(op.emitted) = <<"Sending", "Sent", "Failed">>

\* ------------------------------------------------------------ C17
\* C17: the error handler of every request that failed resolves to an error,
\* and no Operation is left without a terminal state.
ClassificationResolves ==
    /\ op.pc = "classifying" => ErrorHandler(op).status = "resolved"
    /\ op.pc # "hung"

\* ------------------------------------------------------------ C18
\* C18: a reverted vote or stake on a proposal that does not exist fails with
\* the unknown-proposal error, whatever the balance, the allowance and the amount
\* are and whether or not the reads of balance and allowance would succeed.
ExistenceFirst ==
    [][(Classifies /\ op.kind \in {"vote", "stake"} /\ MatchRevert(op.error)
           /\ op.prop.proposer = NULL_ADDRESS /\ op.failAt # "proposals") =>
          \E e \in NotFound : FailsWith(e)]_vars

\* a reverted stake on an unknown proposal by a sender whose balance and
\* allowance are below the amount has failed with the unknown-proposal error
ExistenceFirstWitness ==
    /\ op.pc = "done"
    /\ op.kind = "stake" /\ MatchRevert(op.error)
    /\ op.prop.proposer = NULL_ADDRESS
    /\ op.balance < op.amount /\ op.allowance < op.amount
    /\ LastEmitted.state = "Failed" /\ LastEmitted.value \in NotFound

\* ------------------------------------------------------------ C19
\* the error the decision tree existence, finalization, balance, allowance,
\* unknown gives for request r
DecisionTree(r) ==
    IF r.prop.proposer = NULL_ADDRESS THEN Err("unknown proposal")
    ELSE IF r.prop.state = Executed THEN AlreadyFinalized
    ELSE IF r.balance < r.amount THEN InsufficientBalance
    ELSE IF r.allowance < r.amount THEN InsufficientAllowance
    ELSE r.error

\* C19: a reverted stake whose supplementary reads all succeed fails with the
\* error of the decision tree existence, finalization, balance, allowance,
\* unknown.
StakeDecisionTree ==
    [][(Classifies /\ op.kind = "stake" /\ MatchRevert(op.error) /\ ReadsSucceed) =>
          FailsWith(DecisionTree(op))]_vars

\* ------------------------------------------------------------ C20
\* C20: a reverted vote, stake or execute on an existing proposal that is not
\* executed, with balance and allowance not below the amount and no
\* supplementary read rejecting, fails with the error the transaction failed with.
InconclusivePassThrough ==
    [][(Classifies /\ op.kind \in {"vote", "stake", "execute"} /\ MatchRevert(op.error)
           /\ ReadsSucceed
           /\ op.prop.proposer # NULL_ADDRESS /\ op.prop.state # Executed
           /\ op.balance >= op.amount /\ op.allowance >= op.amount) =>
          FailsWith(op.error)]_vars

\* a reverted stake of a positive amount on a queued proposal, by a sender with
\* enough balance and allowance, has failed with the error of the transaction
InconclusivePassThroughWitness ==
    /\ op.pc = "done"
    /\ op.kind = "stake" /\ MatchRevert(op.error)
    /\ op.amount > 0 /\ op.prop.state = "3"
    /\ LastEmitted = Snapshot("Failed", op.error)

\* ------------------------------------------------------------ C21
\* C21: a vote, stake or execute that fails with an error that is not a revert
\* fails with that very error, whatever proposals(id) returns (no supplementary
\* read rejecting).
SubmissionErrorAsIs ==
    [][(Classifies /\ op.kind \in {"vote", "stake", "execute"}
           /\ ~MatchRevert(op.error) /\ ReadsSucceed) =>
          FailsWith(op.error)]_vars

\* ------------------------------------------------------------ C22
\* the step is the one in which the receipt of the request arrives
Confirms == op.pc = "sent" /\ op'.pc = "done"

\* C22: when the receipt of a stake carries no Stake event the Operation ends
\* in Failed with the error of the mapper, and never emits Mined.
MissingStakeEventFails ==
    [][(Confirms /\ op.kind = "stake" /\ "Stake" \notin op.events) =>
          /\ FailsWith(Err("no Stake event"))
          /\ \A i \in 1..Len(op'.emitted) : op'.emitted[i].state # "Mined"]_vars

\* a stake whose receipt carries another event but no Stake event has failed
MissingStakeEventFailsWitness ==
    /\ op.pc = "done"
    /\ op.kind = "stake" /\ op.events = {"VoteProposal"}
    /\ StateNames(op.emitted) = <<"Sending", "Sent", "Failed">>
    /\ LastEmitted.value = Err("no Stake event")

\* ------------------------------------------------------------ C23
\* the step ends the Operation in Mined with result v
MinedWith(v) == op'.emitted = Append(op.emitted, Snapshot("Mined", v))

\* C23: when the receipt carries no events, execute and approveForStaking end in
\* Mined with the receipt; a vote whose receipt carries no VoteProposal event
\* ends in Mined with null.
MissingMarkerSucceeds ==
    [][/\ (Confirms /\ op.kind \in {"execute", "approveForStaking"} /\ op.events = {})
             => MinedWith("receipt")
       /\ (Confirms /\ op.kind = "vote" /\ "VoteProposal" \notin op.events)
             => MinedWith("null")]_vars

\* a vote whose receipt carries no events has been mined with null
MissingMarkerSucceedsWitness ==
    /\ op.pc = "done"
    /\ op.kind = "vote" /\ op.events = {}
    /\ LastEmitted = Snapshot("Mined", "null")

\* ------------------------------------------------------------ vocabulary of C24-C27
\* itemMap has returned a state for the queried proposal
Mapped == proposal.pc = "mapped" /\ proposal.state.status = "returned"
StageIs(name) == proposal.item.stage = name
StakesFor == proposal.item.stakesFor
StakesAgainst == proposal.item.stakesAgainst
Up == proposal.state.upstakeNeededToPreBoost
Down == proposal.state.downStakeNeededToQueue

\* threshold x P, the threshold being item.gpQueue.threshold / 2^REAL_FBITS
ThresholdP == (proposal.item.threshold * PRECISION) \div (2 ^ REAL_FBITS)

\* q is floor(a / b), for b > 0
IsFloor(q, a, b) == q * b <= a /\ a < (q + 1) * b

\* ------------------------------------------------------------ C24
\* C24: for a Queued proposal upstakeNeededToPreBoost + stakesFor is the floor
\* of (threshold x P) x stakesAgainst / P.
AdvanceDeltaFormula ==
    (Mapped /\ StageIs("Queued")) =>
        IsFloor(Up + StakesFor, ThresholdP * StakesAgainst, PRECISION)

\* threshold 0.5 and stakesAgainst 3: the floor of 1.5 is taken after the
\* multiplication
AdvanceDeltaFormulaWitness ==
    /\ Mapped /\ StageIs("Queued")
    /\ 2 * ThresholdP = PRECISION
    /\ StakesAgainst = 3 /\ StakesFor = 0
    /\ Up = 1

\* ------------------------------------------------------------ C25
\* C25: for a PreBoosted proposal with a threshold above zero
\* downStakeNeededToQueue + stakesAgainst is the floor of
\* stakesFor x P / (threshold x P), with the P of the advance-delta.
FallbackDeltaFormula ==
    (Mapped /\ StageIs("PreBoosted") /\ ThresholdP > 0) =>
        IsFloor(Down + StakesAgainst, StakesFor * PRECISION, ThresholdP)

\* threshold 0.5, stakesFor 3 and stakesAgainst 1
FallbackDeltaFormulaWitness ==
    /\ Mapped /\ StageIs("PreBoosted")
    /\ 2 * ThresholdP = PRECISION
    /\ StakesFor = 3 /\ StakesAgainst = 1
    /\ Down = 5

\* ------------------------------------------------------------ C26
\* C26: for a Queued proposal the advance-delta is negative exactly when
\* stakesFor exceeds threshold x stakesAgainst; with threshold 0.5 and
\* stakesFor 100 it is 50 for stakesAgainst 300 and -25 for stakesAgainst 150.
ThresholdSign ==
    (Mapped /\ StageIs("Queued")) =>
        /\ Up < 0 <=> ThresholdP * StakesAgainst < StakesFor * PRECISION
        /\ (2 * ThresholdP = PRECISION /\ StakesFor = 100) =>
              /\ StakesAgainst = 300 => Up = 50
              /\ StakesAgainst = 150 => Up = -25

\* the second example of the claim, with its negative delta
ThresholdSignWitness ==
    /\ Mapped /\ StageIs("Queued")
    /\ 2 * ThresholdP = PRECISION
    /\ StakesFor = 100 /\ StakesAgainst = 150
    /\ Up = -25

\* ------------------------------------------------------------ C27
\* C27: upstakeNeededToPreBoost is zero unless the stage is Queued,
\* downStakeNeededToQueue is zero unless the stage is PreBoosted, and one of
\* the two is zero.
StageGating ==
    Mapped =>
        /\ ~StageIs("Queued") => Up = 0
        /\ ~StageIs("PreBoosted") => Down = 0
        /\ Up = 0 \/ Down = 0

\* a PreBoosted proposal with a non-zero fallback-delta, and a Boosted proposal
\* whose stakes would give non-zero deltas in the other stages
StageGatingWitness ==
    /\ Mapped
    /\ \/ StageIs("PreBoosted") /\ Down # 0 /\ Up = 0
       \/ StageIs("Boosted") /\ StakesFor = 1 /\ StakesAgainst = 3
          /\ ThresholdP = PRECISION

\* ------------------------------------------------------------ C28
\* the active subscriptions to key k
ActiveOf(k) == {s \in Subscribers : subs[s].owner = k /\ Active(s)}

\* C28: the subscriptionsCount of every record of the registry is the number
\* of active subscriptions to its key.
RefCountMatchesListeners ==
    \A i \in 1..Len(observedAccounts) :
        LET rec == recs[observedAccounts[i]] IN
        rec.subscriptionsCount = Cardinality(ActiveOf(rec.owner))

\* ------------------------------------------------------------ C29
\* the step is the unsubscribe of subscriber s: s is stopped outside a
\* notification of the feed
Unsubscribes(s) ==
    /\ Active(s) /\ ~Active(s)'
    /\ events' = events
    /\ subs'[s].received = subs[s].received

\* C29: no unsubscribe raises an error.
CancelNeverFails ==
    [][\A s \in Subscribers : Unsubscribes(s) => thrown' = "none"]_vars

\* ------------------------------------------------------------ C30
\* the step runs the callback of the newBlockHeaders subscription
Ticks == events' = events + 1

\* C30: when the callback of the feed runs, every record of the registry has
\* an observer.
TickedRecordsHaveObserver ==
    [][Ticks =>
          \A i \in 1..Len(observedAccounts) :
              recs[observedAccounts[i]].observer # Undefined]_vars

\* ------------------------------------------------------------ C33
\* the state mapping has run on a proposal that the query found
HasItem == proposal.pc = "mapped" /\ proposal.item # NullItem

\* the sub-records of the proposal determine a type
TypeKnown == ProposalType(proposal.item).status = "returned"

\* C33: the state mapping of every PreBoosted proposal (of a known type)
\* returns a state, with an integer downStakeNeededToQueue.
FallbackDeltaTotal ==
    (HasItem /\ TypeKnown /\ StageIs("PreBoosted")) =>
        /\ proposal.state.status = "returned"
        /\ proposal.state.downStakeNeededToQueue \in Int

\* ------------------------------------------------------------ C34
\* the two formulas of itemMap applied to the threshold and stakes of the
\* proposal whose state has been computed
AdvanceDelta ==
    Upstake(realMathToNumber(proposal.item.threshold), StakesFor, StakesAgainst)
FallbackDelta ==
    DownStake(realMathToNumber(proposal.item.threshold), StakesFor, StakesAgainst)

\* C34 as stated: for a threshold above zero, an advance-delta <= 0 comes with
\* a fallback-delta >= 0, and the two are never both above zero.
FormulasAgree ==
    (HasItem /\ ThresholdP > 0) =>
        /\ AdvanceDelta <= 0 => FallbackDelta >= 0
        /\ ~(AdvanceDelta > 0 /\ FallbackDelta > 0)

\* C34: for a threshold above zero, an advance-delta below zero comes with a
\* fallback-delta >= 0, and the two are never both above zero.
FormulasAgreeStrict ==
    (HasItem /\ ThresholdP > 0) =>
        /\ AdvanceDelta < 0 => FallbackDelta >= 0
        /\ ~(AdvanceDelta > 0 /\ FallbackDelta > 0)

\* threshold 1, stakesFor 3, stakesAgainst 1: the advance-delta is -2 and the
\* fallback-delta 2
FormulasAgreeStrictWitness ==
    /\ HasItem
    /\ ThresholdP = PRECISION
    /\ StakesFor = 3 /\ StakesAgainst = 1
    /\ AdvanceDelta = -2 /\ FallbackDelta = 2

\* ------------------------------------------------------------ C36
\* the sub-records of the proposal and the scheme fields of its schemeRegistrar
HasReward == proposal.item.contributionReward # Null
HasGeneric == proposal.item.genericScheme # Null
HasRegistrar == proposal.item.schemeRegistrar # Null
ToRegister == proposal.item.schemeRegistrar[1].schemeToRegister
ToRemove == proposal.item.schemeRegistrar[1].schemeToRemove

\* the scheme to register is the address of one of the dao's schemes
AmongDaoSchemes ==
    \E i \in 1..Len(proposal.item.daoSchemes) :
        ToLowerCase(proposal.item.daoSchemes[i]) = ToLowerCase(ToRegister[1])

\* only the schemeRegistrar sub-record decides the type
RegistrarDecides == ~HasReward /\ ~HasGeneric /\ HasRegistrar

\* C36: the type of a computed proposal state follows the sub-record that is
\* present, in the order contributionReward, genericScheme, schemeRegistrar
\* (Edit, Add or Remove by its scheme fields); with no sub-record, or a
\* schemeRegistrar with neither scheme field, the mapping throws.
TypeDerivation ==
    HasItem =>
        /\ Mapped =>
            /\ HasReward => proposal.state.type = "ContributionReward"
            /\ (~HasReward /\ HasGeneric) => proposal.state.type = "GenericScheme"
            /\ (RegistrarDecides /\ ToRegister # Null /\ AmongDaoSchemes) =>
                   proposal.state.type = "SchemeRegistrarEdit"
            /\ (RegistrarDecides /\ ToRegister # Null /\ ~AmongDaoSchemes) =>
                   proposal.state.type = "SchemeRegistrarAdd"
            /\ (RegistrarDecides /\ ToRegister = Null /\ ToRemove # Null) =>
                   proposal.state.type = "SchemeRegistrarRemove"
        /\ (~HasReward /\ ~HasGeneric /\ ~HasRegistrar) =>
               proposal.state.status = "threw"
        /\ (RegistrarDecides /\ ToRegister = Null /\ ToRemove = Null) =>
               proposal.state.status = "threw"

\* a schemeRegistrar proposal with both scheme fields set, whose scheme to
\* register is one of the dao's schemes in another case: the type is Edit
TypeDerivationWitness ==
    /\ Mapped /\ RegistrarDecides
    /\ ToRegister = Some("0xA") /\ ToRemove # Null
    /\ proposal.item.daoSchemes = <<"0xb", "0xa">>
    /\ proposal.state.type = "SchemeRegistrarEdit"

\* ------------------------------------------------------------ C31
\* the stream of the token subscription has terminated: the subscriber
\* unsubscribed or received an error
TokenTerminated == token.pc = "subscribed" /\ token.observer = "closed"

\* C31: once the stream of Token.balanceOf or Token.allowance has terminated,
\* no event subscription created for it is active.
NoLeakedEventSubscription == TokenTerminated => token.subscription # "active"

\* ------------------------------------------------------------ C32
\* the last item the subscriber received (NullAmount: none, or the error)
TokenLatest ==
    IF token.received = <<>> THEN NullAmount
    ELSE token.received[Len(token.received)]

\* a balanceOf subscription is active, the balance is v and the subscriber has
\* not been told (in a state from which the chain can still change)
TokenBehind(v) ==
    /\ token.kind = "balanceOf"
    /\ token.transfers < MaxTransfers
    /\ token.observer = "open"
    /\ token.amount = v
    /\ TokenLatest # v

\* C32: while a balanceOf subscription is active and no read is rejected,
\* every balance of owner is eventually emitted to the subscriber, unless the
\* balance changes again first.
TokenBalanceLiveness ==
    \A v \in TokenAmounts :
        TokenBehind(v) ~>
            (token.observer # "open" \/ token.amount # v \/ TokenLatest = v \/ token.lost)

\* ------------------------------------------------------------ C35
\* the call gives a descriptionHash; it gives a title, a url or a description
GivesHash == creation.options.descriptionHash # Null
GivesText ==
    \/ creation.options.title # Null
    \/ creation.options.url # Null
    \/ creation.options.description # Null

\* C35: with a descriptionHash and a title, url or description no transaction
\* is built; with a descriptionHash only nothing is saved to IPFS and the
\* transaction that is built carries the caller's descriptionHash.
CreateDescriptionHandling ==
    creation.pc # "called" =>
        /\ (GivesHash /\ GivesText) => creation.pc # "built"
        /\ (GivesHash /\ ~GivesText) =>
              /\ creation.saved = <<>>
              /\ creation.pc = "built" =>
                     creation.tx = Some(creation.options.descriptionHash)
====
